---- MODULE Spec2Model ----
(***************************************************************************)
(* Temporal path finding of dynetx (dynetx/algorithms/paths.py):           *)
(* __temporal_dag, time_respecting_paths and annotate_paths.               *)
(*                                                                         *)
(* Node ids are integers (so a node id never contains "_").  The string    *)
(* f"{n}_{tid}" is the pair <<n, tid>> and the raw root u is the 1-tuple   *)
(* <<u>>; split("_") reads the components back.  An optional argument      *)
(* (start, end, the running minima of annotate_paths) is <<>> for None     *)
(* and <<x>> for the value x.                                              *)
(***************************************************************************)
EXTENDS Integers, Sequences, FiniteSets, TLC

\* ---- bounds of the model ----
MaxNode == 3
MaxT == 2
MaxInter == 2
MaxPaths == 3

Nodes == 1..MaxNode
Times == 0..MaxT
Triples == Nodes \X Nodes \X Times
OptTimes == {<<>>} \cup {<<t>> : t \in Times}

VARIABLES G, directed, u, v, start, end,
          pc, err, win, k, DGnodes, DGedges, active, sources, targets,
          queries, paths,
          apaths, ai, apc, shortest, fastest, min_to_reach,
          ann_shortest, ann_fastest, ann_foremost, fastest_shortest, shortest_fastest

tvars == <<G, directed, u, v, start, end, pc, err, win, k, DGnodes, DGedges,
           active, sources, targets, queries, paths>>
inputs == <<G, directed, u, v, start, end>>
avars == <<apaths, ai, apc, shortest, fastest, min_to_reach,
           ann_shortest, ann_fastest, ann_foremost, fastest_shortest, shortest_fastest>>
vars == <<tvars, avars>>

\* ---- generic helpers ----
Range(s) == {s[i] : i \in 1..Len(s)}

SetMin(S) == CHOOSE x \in S : \A y \in S : x <= y
SetMax(S) == CHOOSE x \in S : \A y \in S : x >= y

RECURSIVE SubsetsUpTo(_, _)
SubsetsUpTo(S, n) ==
  IF n = 0 THEN {{}}
  ELSE LET P == SubsetsUpTo(S, n - 1)
       IN P \cup {p \cup {x} : p \in P, x \in S}

RECURSIVE SortedSeq(_)
SortedSeq(S) == IF S = {} THEN <<>> ELSE <<SetMin(S)>> \o SortedSeq(S \ {SetMin(S)})

\* ---- the time-evolving graph (external collaborator) ----
\* G.temporal_snapshots_ids(): the sorted, deduplicated timestamps of G
temporal_snapshots_ids(g) == SortedSeq({x[3] : x \in g})

\* G.neighbors(n, t): out-neighbours for a DynDiGraph, all neighbours for a DynGraph
neighbors(g, dir, n, t) ==
  {x[2] : x \in {y \in g : y[1] = n /\ y[3] = t}}
    \cup (IF dir THEN {} ELSE {x[1] : x \in {y \in g : y[2] = n /\ y[3] = t}})

\* ---- vertices of the temporal DAG ----
Raw(n) == <<n>>
Copy(n, t) == <<n, t>>
\* isinstance(an, node_type) and (not a str or no "_" in it): the raw root
IsRaw(an) == Len(an) = 1
\* node_type(str(an).split("_")[0])
NodeOf(an) == an[1]
\* t_type(second.split("_")[1])
TimeOf(an) == an[2]

\* ---- window resolution, lines 38-51 ----
StartOf(ids, s) == IF s = <<>> THEN ids[1] ELSE s[1]
EndOf(ids, e) == IF e = <<>> THEN ids[Len(ids)] ELSE e[1]

\* line 44 with "start >= end" for "start > end"
InvalidWindowStrict(ids, s, e) ==
  \/ s < SetMin(Range(ids))
  \/ s >= e
  \/ e > SetMax(Range(ids))
  \/ s > SetMax(Range(ids))

\* line 44
InvalidWindow(ids, s, e) ==
  \/ s < SetMin(Range(ids))
  \/ s > e
  \/ e > SetMax(Range(ids))
  \/ s > SetMax(Range(ids))

\* list(map(pred, ids)).index(True), 0-based; Len(ids) stands for "not in list"
IndexTrue(bools) ==
  IF \E i \in 1..Len(bools) : bools[i]
  THEN (CHOOSE i \in 1..Len(bools) : bools[i] /\ \A j \in 1..(i - 1) : ~bools[j]) - 1
  ELSE Len(bools)
HasTrue(bools) == \E i \in 1..Len(bools) : bools[i]

\* line 49
StartIndex(ids, s) == IndexTrue([i \in 1..Len(ids) |-> ids[i] >= s])
\* line 50: the value of end itself when end is the last timestamp
EndIndex(ids, e) ==
  IF e = ids[Len(ids)] THEN e ELSE IndexTrue([i \in 1..Len(ids) |-> ids[i] > e])
\* line 50 raises when .index(True) finds nothing
IndexFails(ids, s, e) ==
  \/ ~HasTrue([i \in 1..Len(ids) |-> ids[i] >= s])
  \/ e # ids[Len(ids)] /\ ~HasTrue([i \in 1..Len(ids) |-> ids[i] > e])

\* Python's seq[i:j] for integers i, j (negative indices count from the end)
PyClamp(n, i) == IF i < 0 THEN (IF i + n < 0 THEN 0 ELSE i + n) ELSE (IF i > n THEN n ELSE i)
PySlice(s, i, j) ==
  LET lo == PyClamp(Len(s), i)
      hi == PyClamp(Len(s), j)
  IN IF hi <= lo THEN <<>> ELSE SubSeq(s, lo + 1, hi)

\* line 51
Window(ids, s, e) == PySlice(ids, StartIndex(ids, s), EndIndex(ids, e))

\* ---- the forward sweep, lines 59-83 ----
\* line 63
Neighbors(an, tid) == {Copy(n, tid) : n \in neighbors(G, directed, NodeOf(an), tid)}
\* lines 71-73: the raw root is renamed when it expands
Relabel(an, tid) == IF IsRaw(an) THEN Copy(NodeOf(an), tid) ELSE an
\* line 76: DG.add_edge(an, n)
Edge(an, n) == <<an, n>>
\* a dict used as an ordered set: d[key] = None
DictSet(d, key) == IF key \in Range(d) THEN d ELSE Append(d, key)
\* line 74 guarded so that only the first departure of the root is registered
AddSourceFirstOnly(srcs, an) == IF srcs = <<>> THEN <<an>> ELSE srcs

\* line 74
AddSource(srcs, an) == DictSet(srcs, an)
\* lines 67-68
ToRemove(act, root, tid) == {an \in act : Neighbors(an, tid) = {} /\ an # root}

\* ---- path enumeration, lines 111-124 ----
VKey(x) == TimeOf(x) * (MaxNode + 1) + NodeOf(x)
RECURSIVE SortByKey(_)
SortByKey(S) ==
  IF S = {} THEN <<>>
  ELSE LET m == CHOOSE x \in S : \A y \in S : VKey(x) <= VKey(y)
       IN <<m>> \o SortByKey(S \ {m})
\* the adjacency of a vertex, in insertion order (by timestamp, then by neighbour)
Successors(E, x) == SortByKey({e[2] : e \in {f \in E : f[1] = x}})

\* nx.all_simple_paths(DAG, s, t): depth first, no vertex visited twice
RECURSIVE Dfs(_, _, _), DfsKids(_, _, _, _)
Dfs(E, path, tgt) == DfsKids(E, path, Successors(E, path[Len(path)]), tgt)
DfsKids(E, path, kids, tgt) ==
  IF kids = <<>> THEN <<>>
  ELSE LET c == Head(kids)
           here == IF c \in Range(path) THEN <<>>
                   ELSE IF c = tgt THEN <<Append(path, c)>>
                   ELSE Dfs(E, Append(path, c), tgt)
       IN here \o DfsKids(E, path, Tail(kids), tgt)
all_simple_paths(E, s, t) == Dfs(E, <<s>>, t)

\* line 122 with the two node ids exchanged
InteractionSwapped(first, second) == <<NodeOf(second), NodeOf(first), TimeOf(second)>>

\* lines 119-122
Interaction(first, second) == <<NodeOf(first), NodeOf(second), TimeOf(second)>>
Translate(p) == [i \in 1..(Len(p) - 1) |-> Interaction(p[i], p[i + 1])]

RECURSIVE Flatten(_)
Flatten(ss) == IF ss = <<>> THEN <<>> ELSE Head(ss) \o Flatten(Tail(ss))

\* lines 111-124
PathsOf(E, srcs, tgts) ==
  LET pairs == Flatten([i \in 1..Len(srcs) |-> [j \in 1..Len(tgts) |-> <<srcs[i], tgts[j]>>]])
      one(pair) == LET ps == all_simple_paths(E, pair[1], pair[2])
                   IN [i \in 1..Len(ps) |-> Translate(ps[i])]
  IN Flatten([i \in 1..Len(pairs) |-> one(pairs[i])])

\* ---- time_respecting_paths as a state machine ----
\* Node ids are opaque: every query is a renaming of one with u = 1 and v = 2.
\* The network holds at least one interaction (ids[0] exists, line 34).
TCall ==
  /\ G \in (SubsetsUpTo(Triples, MaxInter) \ {{}})
  /\ directed \in BOOLEAN
  /\ u = 1
  /\ v = 2
  /\ start \in OptTimes
  /\ end \in OptTimes
  /\ pc = "call"
  /\ err = "none"
  /\ win = <<>>
  /\ k = 0
  /\ DGnodes = {}
  /\ DGedges = {}
  /\ active = {}
  /\ sources = <<>>
  /\ targets = <<>>
  /\ queries = 0
  /\ paths = <<>>

\* lines 33-46: the window is rejected
Raise ==
  /\ pc = "call"
  /\ LET ids == temporal_snapshots_ids(G)
         s == StartOf(ids, start)
         e == EndOf(ids, end)
     IN /\ InvalidWindow(ids, s, e) \/ IndexFails(ids, s, e)
        /\ err' = IF InvalidWindow(ids, s, e) THEN "InvalidWindow" ELSE "IndexError"
  /\ pc' = "error"
  /\ UNCHANGED <<inputs, win, k, DGnodes, DGedges, active, sources, targets, queries, paths, avars>>

\* lines 33-57: the window is resolved and the DAG is created
Resolve ==
  /\ pc = "call"
  /\ LET ids == temporal_snapshots_ids(G)
         s == StartOf(ids, start)
         e == EndOf(ids, end)
     IN /\ ~InvalidWindow(ids, s, e)
        /\ ~IndexFails(ids, s, e)
        /\ win' = Window(ids, s, e)
  /\ DGnodes' = {Raw(u)}
  /\ active' = {Raw(u)}
  /\ pc' = "sweep"
  /\ UNCHANGED <<inputs, err, k, DGedges, sources, targets, queries, paths, avars>>

\* lines 59-83: one timestamp of the sweep
Sweep ==
  /\ pc = "sweep"
  /\ k < Len(win)
  /\ LET tid == win[k + 1]
         expanding == {an \in active : Neighbors(an, tid) # {}}
         to_add == UNION {Neighbors(an, tid) : an \in active}
         to_remove == ToRemove(active, Raw(u), tid)
         new == UNION {{Edge(Relabel(an, tid), n) : n \in Neighbors(an, tid)} : an \in active}
     IN /\ targets' = IF Copy(v, tid) \in to_add THEN DictSet(targets, Copy(v, tid)) ELSE targets
        /\ sources' = IF \E an \in expanding : IsRaw(an)
                      THEN AddSource(sources, Copy(u, tid)) ELSE sources
        /\ DGedges' = DGedges \cup new
        /\ DGnodes' = DGnodes \cup {e[1] : e \in new} \cup {e[2] : e \in new}
        /\ active' = (active \cup to_add) \ to_remove
        /\ queries' = queries + Cardinality(active)
  /\ k' = k + 1
  /\ UNCHANGED <<inputs, pc, err, win, paths, avars>>

\* lines 85, 109-124
Enumerate ==
  /\ pc = "sweep"
  /\ k = Len(win)
  /\ paths' = PathsOf(DGedges, sources, targets)
  /\ pc' = "done"
  /\ UNCHANGED <<inputs, err, win, k, DGnodes, DGedges, active, sources, targets, queries, avars>>

\* ---- annotate_paths, lines 175-216 ----
\* line 233
path_length(path) == Len(path)
\* line 250
path_duration(path) == path[Len(path)][3] - path[1][3]
\* line 185
Reach(path) == path[Len(path)][3]

\* lines 187, 193, 199 with "<=" for "<": a tie resets the list
IsNewMinOrTie(minv, val) == minv = <<>> \/ val <= minv[1]

\* lines 187, 193, 199: a new minimum (or the first value)
IsNewMin(minv, val) == minv = <<>> \/ val < minv[1]
\* lines 187-203: one running minimum and the paths that attain it
UpdMin(minv, val) == IF IsNewMin(minv, val) THEN <<val>> ELSE minv
UpdList(minv, lst, val, path) ==
  IF IsNewMin(minv, val) THEN <<path>>
  ELSE IF val = minv[1] THEN Append(lst, path)
  ELSE lst

\* the keys of {tuple(path): ... for path in lst}: first occurrences, in order
RECURSIVE DictKeys(_)
DictKeys(lst) ==
  IF lst = <<>> THEN <<>>
  ELSE LET init == DictKeys(SubSeq(lst, 1, Len(lst) - 1))
       IN DictSet(init, lst[Len(lst)])

\* lines 205-207 and 213
FastestShortest(lst) ==
  LET keys == DictKeys(lst)
      minval == SetMin({path_duration(keys[i]) : i \in 1..Len(keys)})
      keep(x) == path_duration(x) = minval
  IN SelectSeq(keys, keep)

\* lines 209-211 and 214
ShortestFastest(lst) ==
  LET keys == DictKeys(lst)
      minval == SetMin({path_length(keys[i]) : i \in 1..Len(keys)})
      keep(x) == path_length(x) = minval
  IN SelectSeq(keys, keep)

AInter == {<<1, 2, t>> : t \in Times}
APool == {<<a>> : a \in AInter} \cup {<<a, b>> : a, b \in AInter}
AInputs == UNION {[1..n -> APool] : n \in 0..MaxPaths}

AIdle ==
  /\ apaths = <<>>
  /\ ai = 0
  /\ apc = "idle"
  /\ shortest = <<>>
  /\ fastest = <<>>
  /\ min_to_reach = <<>>
  /\ ann_shortest = <<>>
  /\ ann_fastest = <<>>
  /\ ann_foremost = <<>>
  /\ fastest_shortest = <<>>
  /\ shortest_fastest = <<>>

\* lines 175-180; the lists of annotated are <<>> while they are None
ACall ==
  /\ apaths \in AInputs
  /\ ai = 0
  /\ apc = "loop"
  /\ shortest = <<>>
  /\ fastest = <<>>
  /\ min_to_reach = <<>>
  /\ ann_shortest = <<>>
  /\ ann_fastest = <<>>
  /\ ann_foremost = <<>>
  /\ fastest_shortest = <<>>
  /\ shortest_fastest = <<>>

TIdle ==
  /\ G = {}
  /\ directed = FALSE
  /\ u = 1
  /\ v = 2
  /\ start = <<>>
  /\ end = <<>>
  /\ pc = "idle"
  /\ err = "none"
  /\ win = <<>>
  /\ k = 0
  /\ DGnodes = {}
  /\ DGedges = {}
  /\ active = {}
  /\ sources = <<>>
  /\ targets = <<>>
  /\ queries = 0
  /\ paths = <<>>

\* lines 182-203: one path of the loop
AnnotateStep ==
  /\ apc = "loop"
  /\ ai < Len(apaths)
  /\ LET path == apaths[ai + 1]
         length == path_length(path)
         duration == path_duration(path)
         reach == Reach(path)
     IN /\ shortest' = UpdMin(shortest, length)
        /\ ann_shortest' = UpdList(shortest, ann_shortest, length, path)
        /\ fastest' = UpdMin(fastest, duration)
        /\ ann_fastest' = UpdList(fastest, ann_fastest, duration, path)
        /\ min_to_reach' = UpdMin(min_to_reach, reach)
        /\ ann_foremost' = UpdList(min_to_reach, ann_foremost, reach, path)
  /\ ai' = ai + 1
  /\ UNCHANGED <<apaths, apc, fastest_shortest, shortest_fastest, tvars>>

\* lines 205-216
AnnotateCompound ==
  /\ apc = "loop"
  /\ ai = Len(apaths)
  /\ apaths # <<>>
  /\ fastest_shortest' = FastestShortest(ann_shortest)
  /\ shortest_fastest' = ShortestFastest(ann_fastest)
  /\ apc' = "done"
  /\ UNCHANGED <<apaths, ai, shortest, fastest, min_to_reach,
                 ann_shortest, ann_fastest, ann_foremost, tvars>>

\* line 205 on an empty input: annotated['shortest'] is still None
AnnotateEmpty ==
  /\ apc = "loop"
  /\ apaths = <<>>
  /\ apc' = "error"
  /\ UNCHANGED <<apaths, ai, shortest, fastest, min_to_reach, ann_shortest, ann_fastest,
                 ann_foremost, fastest_shortest, shortest_fastest, tvars>>

Init == TCall /\ AIdle
Next == Raise \/ Resolve \/ Sweep \/ Enumerate
Spec == Init /\ [][Next]_vars

InitAnnotate == TIdle /\ ACall
NextAnnotate == AnnotateStep \/ AnnotateCompound \/ AnnotateEmpty
SpecAnnotate == InitAnnotate /\ [][NextAnnotate]_vars

\* ---- properties of time_respecting_paths ----
Ids == temporal_snapshots_ids(G)
S0 == StartOf(Ids, start)
E0 == EndOf(Ids, end)
InRange(t) == S0 <= t /\ t <= E0
Swept == {win[i] : i \in 1..k}

\* every chain of interactions from node x to v at strictly increasing
\* timestamps of the window later than lo
RECURSIVE ChainsFrom(_, _)
ChainsFrom(x, lo) ==
  LET steps == {s \in {<<x, y, t>> : y \in Nodes, t \in Range(Ids)} :
                  /\ s[3] > lo
                  /\ InRange(s[3])
                  /\ s[2] \in neighbors(G, directed, x, s[3])}
  IN {<<s>> : s \in {st \in steps : st[2] = v}}
       \cup UNION {{<<s>> \o c : c \in ChainsFrom(s[2], s[3])} : s \in steps}

\* C1: every chain of interactions from u to v with strictly increasing
\* timestamps inside the window is one of the returned paths.
C1_Exhaustive ==
  pc = "done" => \A c \in ChainsFrom(u, Ids[1] - 1) : c \in Range(paths)

\* C2: the sweep iterates over exactly the timestamps of the network that lie
\* in [start, end], in order.
C2_WindowIsSubsequence ==
  pc \in {"sweep", "done"} => win = SelectSeq(Ids, InRange)

\* C3: along every returned path the timestamps never decrease and each
\* interaction starts at the node where the previous one ended.
C3_TimeRespect ==
  pc = "done" =>
    \A p \in Range(paths) : \A i \in 1..(Len(p) - 1) :
      p[i][3] <= p[i + 1][3] /\ p[i][2] = p[i + 1][1]
C3_Witness == pc = "done" /\ \E p \in Range(paths) : Len(p) >= 3

\* C4: no returned path holds two interactions with the same timestamp; the
\* timestamps along every returned path strictly increase.
C4_OneHopPerSnapshot ==
  pc = "done" =>
    \A p \in Range(paths) : \A i \in 1..(Len(p) - 1) : p[i][3] < p[i + 1][3]

MinStamp == SetMin({x[3] : x \in G})
MaxStamp == SetMax({x[3] : x \in G})
BadWindow == S0 < MinStamp \/ S0 > E0 \/ E0 > MaxStamp \/ S0 > MaxStamp

\* C5: the call fails exactly for the windows with start < min, start > end,
\* end > max or start > max, always with the invalid-window error and before any
\* neighbour query or DAG construction; every other call runs to completion.
C5_WindowValidation ==
  /\ pc = "error" =>
        /\ err = "InvalidWindow"
        /\ BadWindow
        /\ queries = 0 /\ DGnodes = {} /\ DGedges = {}
  /\ pc \in {"sweep", "done"} => ~BadWindow /\ err = "none"
  /\ pc = "sweep" => k <= Len(win)
C5_Witness == pc = "error" /\ start # <<>> /\ end # <<>> /\ start[1] > end[1]

\* removes the vertices without a successor until none is left or none can go
RECURSIVE Acyclic(_, _)
Acyclic(N, E) ==
  IF N = {} THEN TRUE
  ELSE LET sinks == {n \in N : ~\E e \in E : e[1] = n /\ e[2] \in N}
       IN IF sinks = {} THEN FALSE ELSE Acyclic(N \ sinks, E)

\* C8: after every step of the sweep the graph built so far has no directed
\* cycle, and every edge leads to a copy whose timestamp is not earlier.
C8_Acyclic ==
  /\ Acyclic(DGnodes, DGedges)
  /\ \A e \in DGedges : TimeOf(e[1]) <= TimeOf(e[2])

\* C9 as claimed: at most one source is ever registered.
C9_AtMostOneSource == Len(sources) <= 1

\* C9 as amended: a source is registered once for every swept timestamp at
\* which the root has a neighbour, and never twice.
C9_SourcePerDeparture ==
  /\ Range(sources) = {Copy(u, t) : t \in {w \in Swept : neighbors(G, directed, u, w) # {}}}
  /\ \A i, j \in 1..Len(sources) : i < j => TimeOf(sources[i]) < TimeOf(sources[j])
C9_Witness == pc = "done" /\ Len(sources) >= 2

\* C10: the returned list holds no path twice.
C10_NoDuplicatePaths ==
  pc = "done" => \A i, j \in 1..Len(paths) : i # j => paths[i] # paths[j]

\* ---- properties of annotate_paths ----
\* the paths of lst of minimum length, duration, last timestamp, in order
OfMinLength(lst) ==
  LET best(x) == \A i \in 1..Len(lst) : Len(x) <= Len(lst[i]) IN SelectSeq(lst, best)
Span(x) == x[Len(x)][3] - x[1][3]
OfMinDuration(lst) ==
  LET best(x) == \A i \in 1..Len(lst) : Span(x) <= Span(lst[i]) IN SelectSeq(lst, best)
OfMinArrival(lst) ==
  LET best(x) == \A i \in 1..Len(lst) : x[Len(x)][3] <= lst[i][Len(lst[i])][3]
  IN SelectSeq(lst, best)

\* C6: shortest, fastest and foremost are the input paths of minimum length,
\* duration and last timestamp, every tied path kept, in input order.
C6_MinimaWithTies ==
  apc = "done" =>
    /\ ann_shortest = OfMinLength(apaths)
    /\ ann_fastest = OfMinDuration(apaths)
    /\ ann_foremost = OfMinArrival(apaths)
C6_Witness ==
  /\ apc = "done"
  /\ Len(ann_shortest) >= 2 /\ Len(ann_shortest) < Len(apaths)
  /\ Len(ann_fastest) >= 2
  /\ ann_foremost # ann_shortest

\* C7: fastest_shortest is shortest filtered by the minimum duration within
\* shortest, shortest_fastest is fastest filtered by the minimum length within
\* fastest, and a path is kept as many times as it occurs in the filtered list.
C7_CompoundIsFilter ==
  apc = "done" =>
    /\ fastest_shortest = OfMinDuration(ann_shortest)
    /\ shortest_fastest = OfMinLength(ann_fastest)
====
